---- MODULE Spec2Model ----
(***************************************************************************)
(* Optimistic todo list of the DevTools demo: the two client components    *)
(* that reconcile a visible todo collection with the REST backend.         *)
(*                                                                         *)
(*   variant = "container"   TodosContainer  (useState + functional        *)
(*                           updaters)                                     *)
(*   variant = "optimistic"  Todos           (useGetTodos + useOptimistic  *)
(*                           reducer)                                      *)
(*                                                                         *)
(* A todo is [id, text, completed]; createdAt/updatedAt take no part in    *)
(* any decision of the client code and are left out.  Canonical ids        *)
(* (randomUUID) are <<"uuid", n>>, temporary ids (`temp-${Date.now()}`)    *)
(* are <<"temp", t>>, ids of the Next.js route store are <<"route", n>>.   *)
(* Indices are JavaScript indices (0-based, -1 for "not found").           *)
(*                                                                         *)
(* Five specifications share the variables; each keeps the parts it does   *)
(* not model idle:                                                         *)
(*   Spec             the two client components above                      *)
(*   ApiSpec          the fetch wrappers of api/todos and the hooks        *)
(*                    calling them                                         *)
(*   FoldSpec         the optimistic reducer folded over a baseline array, *)
(*                    and the figures derived from the result              *)
(*   ServerSpec       the request handlers of the todo stores (table-      *)
(*                    backed, in-memory, the older in-memory routes, the   *)
(*                    Next.js route)                                       *)
(*   QueryClientSpec  getQueryClient on the server and in the browser      *)
(***************************************************************************)
EXTENDS Integers, Sequences, FiniteSets, TLC

\* ---- bounds of the model ------------------------------------------------
MaxOps == 2
MaxClock == 1
MaxRefetch == 1

\* number of records the stores start with (the sources start with five)
InitTodos == 3

VARIABLES
  variant,      \* which client component is mounted
  server,       \* backend store `todos`
  nextUuid,     \* randomUUID(): next fresh canonical id
  apiTodos,     \* store of the Next.js route /api/todos
  now,          \* the last value read from Date.now()
  todos,        \* TodosContainer: useState(todosInit)
  isAdding,     \* TodosContainer: useState(false)
  isUpdating,   \* both components: useState(null); NoId stands for null
  data,         \* query cache entry of the todo list (Todos: `todos`)
  optimistic,   \* useOptimistic: queued optimistic actions, oldest first
  transitions,  \* async actions started by startDeleting and not finished
  reqs,         \* requests in flight, with the closure of their handler
  nOps,         \* operations dispatched so far
  nRefetch,     \* list refetches so far
  stale,        \* the list query has been invalidated and not yet refetched
  console,      \* ops whose failure was reported with console.error
  log,          \* history: the settled operations, in the order they settled
  quiet,        \* history: the op that has been alone since its dispatch, or 0
  last,         \* history: the last handler step taken
  \* -- the backends on their own (ServerSpec)
  backend,      \* which implementation of the todo routes is running
  store,        \* its records: the `todos` array, or the rows of table todos
  srvNextId,    \* randomUUID() / gen_random_uuid(): next fresh id
  srvNow,       \* the last value read from the backend's clock
  srvOps,       \* requests handled so far
  reply,        \* history: the last request, its response, the store before
  \* -- the client functions under the query library (ApiSpec)
  apiCalls,     \* client operations dispatched so far
  apiSent,      \* network requests issued so far (calls of fetch)
  inflight,     \* the operation in progress, or NoCall
  outcome,      \* history: how the last operation ended for its caller
  \* -- the reducer over JavaScript arrays (FoldSpec)
  heap,         \* the arrays allocated so far, by reference
  foldBase,     \* reference of the baseline array handed to the reducer
  foldActions,  \* the fixed ordered list of actions to fold
  foldRuns,     \* history: the result of each fold run so far
  \* -- the query client of the frontend (QueryClientSpec)
  isServer,            \* isServer of the query library: no window object
  browserQueryClient,  \* the module's slot; 0 stands for null
  madeClients,         \* QueryClient objects constructed so far
  gotClients           \* history: who called getQueryClient and what it got

clientVars == <<variant, server, nextUuid, apiTodos, now, todos, isAdding,
                isUpdating, data, optimistic, transitions, reqs, nOps,
                nRefetch, stale, console, log, quiet, last>>
serverVars == <<backend, store, srvNextId, srvNow, srvOps, reply>>
apiVars == <<apiCalls, apiSent, inflight, outcome>>
foldVars == <<heap, foldBase, foldActions, foldRuns>>

\* the parts of the system a specification does not run
queryClientVars == <<isServer, browserQueryClient, madeClients, gotClients>>

auxVars == <<serverVars, apiVars, foldVars, queryClientVars>>

vars == <<clientVars, serverVars, apiVars, foldVars, queryClientVars>>

\* a part that is not running: its variables hold these values throughout
ServerIdle ==
  /\ backend = "none" /\ store = <<>> /\ srvNextId = 0 /\ srvNow = 0
  /\ srvOps = 0 /\ reply = <<>>
\* no client operation in progress / none has ended yet
NoCall ==
  [fn |-> "none", file |-> "none", by |-> "none", phase |-> "idle",
   failureCount |-> 0, status |-> 0, body |-> "empty"]
NoOutcome ==
  [fn |-> "none", file |-> "none", by |-> "none", status |-> 0,
   body |-> "empty", result |-> "none"]

ApiIdle ==
  /\ apiCalls = 0 /\ apiSent = 0 /\ inflight = NoCall /\ outcome = NoOutcome
FoldIdle == heap = <<>> /\ foldBase = 0 /\ foldActions = <<>> /\ foldRuns = <<>>
QueryClientIdle ==
  /\ isServer = FALSE /\ browserQueryClient = 0 /\ madeClients = 0
  /\ gotClients = <<>>

\* ---- values -------------------------------------------------------------
NoId == <<"none", 0>>
NoTodo == [id |-> NoId, text |-> <<>>, completed |-> FALSE]

\* what the user can type into the form: blank and non-blank inputs
Inputs == { <<>>, <<" ">>, <<" ", "x">>, <<"x", " ">> }

RECURSIVE TrimStart(_)
TrimStart(s) ==
  IF s = <<>> THEN <<>>
  ELSE IF Head(s) = " " THEN TrimStart(Tail(s)) ELSE s

RECURSIVE TrimEnd(_)
TrimEnd(s) ==
  IF s = <<>> THEN <<>>
  ELSE IF s[Len(s)] = " " THEN TrimEnd(SubSeq(s, 1, Len(s) - 1)) ELSE s

\* newTodoText used as typed
Trim_None(s) == s

\* String.prototype.trim
Trim(s) == TrimEnd(TrimStart(s))

IsTemp(id) == id[1] = "temp"

\* Array.prototype.findIndex(t => t.id === id)
RECURSIVE FindFrom(_, _, _)
FindFrom(s, id, i) ==
  IF i >= Len(s) THEN -1
  ELSE IF s[i + 1].id = id THEN i ELSE FindFrom(s, id, i + 1)

FindIndex(s, id) == FindFrom(s, id, 0)

\* Array.prototype.find(t => t.id === id); NoTodo stands for undefined
Find(s, id) == IF FindIndex(s, id) = -1 THEN NoTodo ELSE s[FindIndex(s, id) + 1]

IdsOf(s) == { s[i].id : i \in 1..Len(s) }

Count(s, id) == Cardinality({ i \in 1..Len(s) : s[i].id = id })

\* newTodos.splice(index, 0, todo): an index past the end appends
Splice(s, index, todo) ==
  IF index >= Len(s) THEN Append(s, todo)
  ELSE SubSeq(s, 1, index) \o <<todo>> \o SubSeq(s, index + 1, Len(s))

\* todos.splice(index, 1)
RemoveAt(s, index) == SubSeq(s, 1, index) \o SubSeq(s, index + 2, Len(s))

\* response.ok
Ok(status) == status >= 200 /\ status <= 299


\* ---- the optimistic reducer of Todos (useOptimistic) ---------------------
OptAction(type, temp, todo, index) ==
  [type |-> type, temp |-> temp, todo |-> todo, index |-> index]

\* case TODO_ACTIONS.ADD: [...state, todo]
ReduceAdd(state, action) == Append(state, action.todo)

\* ADD_COMPLETED written as remove-and-append: the canonical record goes to
\* the end of the collection
ReduceAddCompleted_MoveToEnd(state, action) ==
  Append(SelectSeq(state, LAMBDA t : t.id # action.temp.id), action.todo)

\* case TODO_ACTIONS.ADD_COMPLETED: state.map(t => t.id !== temp.id ? t : todo)
ReduceAddCompleted(state, action) ==
  [i \in 1..Len(state) |->
     IF state[i].id # action.temp.id THEN state[i] ELSE action.todo]

\* UPDATE written as an upsert: a record that is not there is appended
ReduceUpdate_Upsert(state, action) ==
  IF action.todo.id \in IdsOf(state)
    THEN [i \in 1..Len(state) |->
            IF state[i].id = action.todo.id THEN action.todo ELSE state[i]]
    ELSE Append(state, action.todo)

\* case TODO_ACTIONS.UPDATE: state.map(t => t.id === updatedTodo.id ? updatedTodo : t)
ReduceUpdate(state, action) ==
  [i \in 1..Len(state) |->
     IF state[i].id = action.todo.id THEN action.todo ELSE state[i]]

\* case TODO_ACTIONS.DELETE: state.filter(t => t.id !== deletedTodo.id)
ReduceDelete(state, action) ==
  SelectSeq(state, LAMBDA t : t.id # action.todo.id)

\* case TODO_ACTIONS.DELETE_ERROR: state.map((t, i) => (i === index ? todo : t))
ReduceDeleteError(state, action) ==
  [i \in 1..Len(state) |->
     IF i - 1 = action.index THEN action.todo ELSE state[i]]

Reducer(state, action) ==
  CASE action.type = "add" -> ReduceAdd(state, action)
    [] action.type = "add_completed" -> ReduceAddCompleted(state, action)
    [] action.type = "update" -> ReduceUpdate(state, action)
    [] action.type = "delete" -> ReduceDelete(state, action)
    [] action.type = "delete_error" -> ReduceDeleteError(state, action)
    [] OTHER -> state

\* useOptimistic(todos, reducer): every render rebases the queued optimistic
\* actions on the passthrough value
RECURSIVE Fold(_, _)
Fold(state, actions) ==
  IF actions = <<>> THEN state
  ELSE Fold(Reducer(state, Head(actions)), Tail(actions))

optimisticTodos == Fold(data, optimistic)

\* the collection the mounted component renders
visible == IF variant = "container" THEN todos ELSE optimisticTodos

\* React drops the queued optimistic actions in the first render after the
\* last async action has finished (or at once, when setOptimisticTodos is
\* called while no async action is pending); that render comes before any
\* further event is handled.
RevertDue == variant = "optimistic" /\ transitions = 0 /\ optimistic # <<>>

\* ---- the updaters TodosContainer passes to setTodos ------------------------
\* prev => [...prev, tempTodo]
AppendTodo(prev, tempTodo) == Append(prev, tempTodo)

\* prev => prev.map(t => t.id === tempTodo.id ? result : t)
ReplaceTemp(prev, tempTodo, result) ==
  [i \in 1..Len(prev) |-> IF prev[i].id = tempTodo.id THEN result ELSE prev[i]]

\* prev => prev.filter(t => t.id !== todo.id)
FilterOut(prev, todo) == SelectSeq(prev, LAMBDA t : t.id # todo.id)

\* prev => prev.map(t => t.id === id ? { ...t, completed: !t.completed } : t)
FlipCompleted(prev, id) ==
  [i \in 1..Len(prev) |->
     IF prev[i].id = id THEN [prev[i] EXCEPT !.completed = ~prev[i].completed]
     ELSE prev[i]]

\* prev => prev.map(t => t.id === id ? updatedTodo : t)
ReplaceById(prev, id, updatedTodo) ==
  [i \in 1..Len(prev) |-> IF prev[i].id = id THEN updatedTodo ELSE prev[i]]

\* prev => prev.map(t => t.id === id ? { ...t, completed: todo.completed } : t)
RestoreCompleted(prev, id, todo) ==
  [i \in 1..Len(prev) |->
     IF prev[i].id = id THEN [prev[i] EXCEPT !.completed = todo.completed]
     ELSE prev[i]]

\* prev => { const newTodos = [...prev]; newTodos.splice(todoIndex, 0, todo); return newTodos }
RestoreAt(prev, todoIndex, todo) == Splice(prev, todoIndex, todo)

\* ---- query keys -----------------------------------------------------------
\* QUERY_KEYS.TODOS
TODOS_KEY == <<"todos">>

\* useGetTodos: queryKey: [QUERY_KEYS.TODOS]
ListQueryKey == << TODOS_KEY >>

\* the mutation hooks: invalidateQueries({ queryKey: QUERY_KEYS.TODOS })
InvalidateKey == TODOS_KEY

\* partialMatchKey of the query library: the filter key matches a query key
\* when every element of the filter equals the element of the query key at
\* the same place
PartialMatchKey(queryKey, filterKey) ==
  /\ Len(filterKey) <= Len(queryKey)
  /\ \A i \in 1..Len(filterKey) : queryKey[i] = filterKey[i]

\* onSuccess of useCreateTodo / useUpdateTodo / useDeleteTodo reaches the list
Invalidates == PartialMatchKey(ListQueryKey, InvalidateKey)


\* ---- requests -------------------------------------------------------------
\* One request in flight together with what the awaiting handler closed over
\* (tempTodo, todo, todoIndex).  `before` and `alone` are history: the visible
\* collection at the dispatch, and whether nothing else was in flight then.
Req(kind, id, text, completed, temp, todo, index) ==
  [op |-> nOps + 1, kind |-> kind, phase |-> "sent", status |-> 0,
   id |-> id, text |-> text, completed |-> completed,
   temp |-> temp, todo |-> todo, index |-> index,
   result |-> NoTodo, before |-> visible, alone |-> (reqs = {})]

NoReq == [op |-> 0, kind |-> "none", phase |-> "none", status |-> 0,
          id |-> NoId, text |-> <<>>, completed |-> FALSE,
          temp |-> NoTodo, todo |-> NoTodo, index |-> -1,
          result |-> NoTodo, before |-> <<>>, alone |-> FALSE]

Evt(evt, r, solo) ==
  [evt |-> evt, op |-> r.op, solo |-> solo,
   before |-> r.before, temp |-> r.temp, todo |-> r.todo,
   result |-> r.result, index |-> r.index, id |-> r.id,
   completed |-> r.completed, status |-> r.status, input |-> <<>>]

Reply(r, status, result) ==
  [r EXCEPT !.phase = "replied", !.status = status, !.result = result]

\* ids a click (or a call racing the render) can still name
Clickable == IdsOf(visible) \cup { r.id : r \in { q \in reqs : q.kind = "delete" } }

\* a handler that returned at its guard: nothing but the history changes;
\* input is what the form held when addTodo was called
ReturnedWith(evt, id, input) ==
  /\ last' = [Evt(evt, [NoReq EXCEPT !.id = id, !.before = visible], FALSE)
                EXCEPT !.input = input]
  /\ UNCHANGED <<auxVars, variant, server, nextUuid, apiTodos, now, todos, isAdding,
                 isUpdating, data, optimistic, transitions, reqs, nOps,
                 nRefetch, stale, console, log, quiet>>

Returned(evt, id) == ReturnedWith(evt, id, <<>>)

DispatchedWith(evt, r, input) ==
  /\ reqs' = reqs \cup {r}
  /\ nOps' = nOps + 1
  /\ quiet' = IF reqs = {} THEN r.op ELSE 0
  /\ last' = [Evt(evt, r, reqs = {}) EXCEPT !.input = input]

Dispatched(evt, r) == DispatchedWith(evt, r, <<>>)

Settled(evt, r) ==
  /\ reqs' = reqs \ {r}
  /\ log' = Append(log, [op |-> r.op, kind |-> r.kind, ok |-> Ok(r.status),
                         temp |-> r.temp, result |-> r.result, id |-> r.id,
                         alone |-> r.alone])
  /\ quiet' = 0
  /\ last' = Evt(evt, r, quiet = r.op)
  /\ stale' = (stale \/ (Ok(r.status) /\ r.kind # "put" /\ Invalidates))

\* ---- backend (in-memory todo routes) ------------------------------------
MaxTextLen == 500

\* TodoParamsSchema: id: z.uuid()
IsUuid(id) == id[1] = "uuid"

\* CreateTodoSchema: text: z.string().min(1).max(500)
ValidText(text) == Len(text) >= 1 /\ Len(text) <= MaxTextLen

\* POST /todos
ServerCreate(r) ==
  /\ ~RevertDue
  /\ r \in reqs /\ r.kind = "create" /\ r.phase = "sent"
  /\ IF ValidText(r.text)
       THEN LET newTodo == [id |-> <<"uuid", nextUuid>>, text |-> r.text,
                            completed |-> r.completed]
            IN /\ server' = Append(server, newTodo)
               /\ nextUuid' = nextUuid + 1
               /\ reqs' = (reqs \ {r}) \cup {Reply(r, 201, newTodo)}
       ELSE /\ reqs' = (reqs \ {r}) \cup {Reply(r, 400, NoTodo)}
            /\ UNCHANGED <<server, nextUuid>>
  /\ UNCHANGED <<auxVars, variant, apiTodos, now, todos, isAdding, isUpdating, data,
                 optimistic, transitions, nOps, nRefetch, stale, console,
                 log, quiet, last>>

\* DELETE /todos/:id
ServerDelete(r) ==
  /\ ~RevertDue
  /\ r \in reqs /\ r.kind = "delete" /\ r.phase = "sent"
  /\ LET index == FindIndex(server, r.id)
     IN IF ~IsUuid(r.id)
          THEN /\ reqs' = (reqs \ {r}) \cup {Reply(r, 400, NoTodo)}
               /\ UNCHANGED server
          ELSE IF index = -1
          THEN /\ reqs' = (reqs \ {r}) \cup {Reply(r, 404, NoTodo)}
               /\ UNCHANGED server
          ELSE /\ server' = RemoveAt(server, index)
               /\ reqs' = (reqs \ {r}) \cup {Reply(r, 204, NoTodo)}
  /\ UNCHANGED <<auxVars, variant, nextUuid, apiTodos, now, todos, isAdding,
                 isUpdating, data, optimistic, transitions, nOps, nRefetch,
                 stale, console, log, quiet, last>>

\* PATCH /todos/:id with body { completed }
ServerPatch(r) ==
  /\ ~RevertDue
  /\ r \in reqs /\ r.kind = "patch" /\ r.phase = "sent"
  /\ LET index == FindIndex(server, r.id)
     IN IF ~IsUuid(r.id)
          THEN /\ reqs' = (reqs \ {r}) \cup {Reply(r, 400, NoTodo)}
               /\ UNCHANGED server
          ELSE IF index = -1
          THEN /\ reqs' = (reqs \ {r}) \cup {Reply(r, 404, NoTodo)}
               /\ UNCHANGED server
          ELSE LET updatedTodo ==
                     [server[index + 1] EXCEPT !.completed = r.completed]
               IN /\ server' = [server EXCEPT ![index + 1] = updatedTodo]
                  /\ reqs' = (reqs \ {r}) \cup {Reply(r, 200, updatedTodo)}
  /\ UNCHANGED <<auxVars, variant, nextUuid, apiTodos, now, todos, isAdding,
                 isUpdating, data, optimistic, transitions, nOps, nRefetch,
                 stale, console, log, quiet, last>>

\* ---- Next.js route /api/todos -------------------------------------------
\* PUT /api/todos with body { id, completed }
RoutePut(r) ==
  /\ ~RevertDue
  /\ r \in reqs /\ r.kind = "put" /\ r.phase = "sent"
  /\ LET todoIndex == FindIndex(apiTodos, r.id)
     IN IF todoIndex = -1
          THEN /\ reqs' = (reqs \ {r}) \cup {Reply(r, 404, NoTodo)}
               /\ UNCHANGED apiTodos
          ELSE /\ apiTodos' = [apiTodos EXCEPT
                                 ![todoIndex + 1].completed = r.completed]
               /\ reqs' = (reqs \ {r}) \cup
                            {Reply(r, 200, apiTodos'[todoIndex + 1])}
  /\ UNCHANGED <<auxVars, variant, server, nextUuid, now, todos, isAdding, isUpdating,
                 data, optimistic, transitions, nOps, nRefetch, stale,
                 console, log, quiet, last>>

\* fetch rejects: the request never reaches a server
NetworkError(r) ==
  /\ ~RevertDue
  /\ r \in reqs /\ r.phase = "sent"
  /\ reqs' = (reqs \ {r}) \cup {Reply(r, 0, NoTodo)}
  /\ UNCHANGED <<auxVars, variant, server, nextUuid, apiTodos, now, todos, isAdding,
                 isUpdating, data, optimistic, transitions, nOps, nRefetch,
                 stale, console, log, quiet, last>>


\* ---- TodosContainer -------------------------------------------------------
\* Date.now() is read at every add; it never runs backwards and need not
\* have advanced since the last reading
Clock == now..MaxClock

\* `temp-${Date.now()}`
TempId(t) == <<"temp", t>>

TempTodo(input, t) == [id |-> TempId(t), text |-> Trim(input), completed |-> FALSE]

\* addTodo up to the await; the form controls are disabled while isAdding
TodosContainer_addTodo(input, t) ==
  /\ variant = "container" /\ ~isAdding
  /\ IF Trim(input) = <<>>
       THEN ReturnedWith("addTodo_return", NoId, input)
       ELSE LET tempTodo == TempTodo(input, t)
            IN /\ nOps < MaxOps
               /\ now' = t
               /\ isAdding' = TRUE
               /\ todos' = AppendTodo(todos, tempTodo)
               /\ DispatchedWith("addTodo",
                                 Req("create", NoId, tempTodo.text, FALSE,
                                     tempTodo, NoTodo, -1), input)
               /\ UNCHANGED <<auxVars, variant, server, nextUuid, apiTodos,
                              isUpdating, data, optimistic, transitions,
                              nRefetch, stale, console, log>>

\* addTodo after the await: try / catch / finally
TodosContainer_addTodoSettle(r) ==
  /\ variant = "container"
  /\ r \in reqs /\ r.kind = "create" /\ r.phase = "replied"
  /\ IF Ok(r.status)
       THEN /\ todos' = ReplaceTemp(todos, r.temp, r.result)
            /\ UNCHANGED console
       ELSE /\ todos' = FilterOut(todos, r.temp)
            /\ console' = console \cup {r.op}
  /\ isAdding' = FALSE
  /\ Settled(IF Ok(r.status) THEN "addTodo_ok" ELSE "addTodo_fail", r)
  /\ UNCHANGED <<auxVars, variant, server, nextUuid, apiTodos, now, isUpdating, data,
                 optimistic, transitions, nOps, nRefetch>>

\* toggleTodo up to the await
TodosContainer_toggleTodo(id) ==
  /\ variant = "container"
  /\ id \in Clickable
  /\ LET todo == Find(todos, id)
     IN IF todo = NoTodo
          THEN Returned("toggleTodo_return", id)
          ELSE /\ nOps < MaxOps
               /\ isUpdating' = id
               /\ todos' = FlipCompleted(todos, id)
               /\ Dispatched("toggleTodo", Req("patch", id, <<>>,
                                               ~todo.completed, NoTodo, todo, -1))
               /\ UNCHANGED <<auxVars, variant, server, nextUuid, apiTodos, now,
                              isAdding, data, optimistic, transitions,
                              nRefetch, stale, console, log>>

\* toggleTodo after the await
TodosContainer_toggleTodoSettle(r) ==
  /\ variant = "container"
  /\ r \in reqs /\ r.kind = "patch" /\ r.phase = "replied"
  /\ IF Ok(r.status)
       THEN /\ todos' = ReplaceById(todos, r.id, r.result)
            /\ UNCHANGED console
       ELSE /\ todos' = RestoreCompleted(todos, r.id, r.todo)
            /\ console' = console \cup {r.op}
  /\ isUpdating' = NoId
  /\ Settled(IF Ok(r.status) THEN "toggleTodo_ok" ELSE "toggleTodo_fail", r)
  /\ UNCHANGED <<auxVars, variant, server, nextUuid, apiTodos, now, isAdding, data,
                 optimistic, transitions, nOps, nRefetch>>

\* deleteTodo up to the await
TodosContainer_deleteTodo(id) ==
  /\ variant = "container"
  /\ id \in Clickable
  /\ LET todoIndex == FindIndex(todos, id)
     IN IF todoIndex = -1
          THEN Returned("deleteTodo_return", id)
          ELSE LET todo == todos[todoIndex + 1]
               IN /\ nOps < MaxOps
                  /\ todos' = FilterOut(todos, todo)
                  /\ Dispatched("deleteTodo", Req("delete", id, <<>>, FALSE,
                                                  NoTodo, todo, todoIndex))
                  /\ UNCHANGED <<auxVars, variant, server, nextUuid, apiTodos, now,
                                 isAdding, isUpdating, data, optimistic,
                                 transitions, nRefetch, stale, console,
                                 log>>

\* deleteTodo after the await
TodosContainer_deleteTodoSettle(r) ==
  /\ variant = "container"
  /\ r \in reqs /\ r.kind = "delete" /\ r.phase = "replied"
  /\ IF Ok(r.status)
       THEN UNCHANGED <<todos, console>>
       ELSE /\ todos' = RestoreAt(todos, r.index, r.todo)
            /\ console' = console \cup {r.op}
  /\ Settled(IF Ok(r.status) THEN "deleteTodo_ok" ELSE "deleteTodo_fail", r)
  /\ UNCHANGED <<auxVars, variant, server, nextUuid, apiTodos, now, isAdding,
                 isUpdating, data, optimistic, transitions, nOps, nRefetch>>


\* ---- Todos (useOptimistic) ------------------------------------------------
\* addTodo up to the await; isAdding comes from a useTransition whose
\* startAdding is never called, so the form is never disabled
Todos_addTodo(input, t) ==
  /\ variant = "optimistic" /\ ~RevertDue
  /\ IF Trim(input) = <<>>
       THEN ReturnedWith("addTodo_return", NoId, input)
       ELSE LET tempTodo == TempTodo(input, t)
            IN /\ nOps < MaxOps
               /\ now' = t
               /\ optimistic' = Append(optimistic,
                                       OptAction("add", NoTodo, tempTodo, -1))
               /\ DispatchedWith("addTodo",
                                 Req("create", NoId, tempTodo.text, FALSE,
                                     tempTodo, NoTodo, -1), input)
               /\ UNCHANGED <<auxVars, variant, server, nextUuid, apiTodos, todos,
                              isAdding, isUpdating, data, transitions,
                              nRefetch, stale, console, log>>

\* addTodo after the await: try / catch
Todos_addTodoSettle(r) ==
  /\ variant = "optimistic" /\ ~RevertDue
  /\ r \in reqs /\ r.kind = "create" /\ r.phase = "replied"
  /\ IF Ok(r.status)
       THEN /\ optimistic' = Append(optimistic,
                                    OptAction("add_completed", r.temp, r.result, -1))
            /\ UNCHANGED console
       ELSE /\ optimistic' = Append(optimistic,
                                    OptAction("delete", NoTodo, r.temp, -1))
            /\ console' = console \cup {r.op}
  /\ Settled(IF Ok(r.status) THEN "addTodo_ok" ELSE "addTodo_fail", r)
  /\ UNCHANGED <<auxVars, variant, server, nextUuid, apiTodos, now, todos, isAdding,
                 isUpdating, data, transitions, nOps, nRefetch>>

\* toggleTodo up to the await: looks the record up in the query data and
\* sends PUT /api/todos; the optimistic update is commented out
Todos_toggleTodo(id) ==
  /\ variant = "optimistic" /\ ~RevertDue
  /\ id \in Clickable
  /\ LET todo == Find(data, id)
     IN IF todo = NoTodo
          THEN Returned("toggleTodo_return", id)
          ELSE /\ nOps < MaxOps
               /\ isUpdating' = id
               /\ Dispatched("toggleTodo", Req("put", id, <<>>,
                                               ~todo.completed, NoTodo, todo, -1))
               /\ UNCHANGED <<auxVars, variant, server, nextUuid, apiTodos, now, todos,
                              isAdding, data, optimistic, transitions,
                              nRefetch, stale, console, log>>

\* toggleTodo after the await: !response.ok and catch both log, finally
Todos_toggleTodoSettle(r) ==
  /\ variant = "optimistic" /\ ~RevertDue
  /\ r \in reqs /\ r.kind = "put" /\ r.phase = "replied"
  /\ console' = IF Ok(r.status) THEN console ELSE console \cup {r.op}
  /\ isUpdating' = NoId
  /\ Settled(IF Ok(r.status) THEN "toggleTodo_ok" ELSE "toggleTodo_fail", r)
  /\ UNCHANGED <<auxVars, variant, server, nextUuid, apiTodos, now, todos, isAdding,
                 data, optimistic, transitions, nOps, nRefetch>>

\* deleteTodo up to the await: the index is taken in the query data, the
\* rest runs inside startDeleting(async () => ...)
Todos_deleteTodo(id) ==
  /\ variant = "optimistic" /\ ~RevertDue
  /\ id \in Clickable
  /\ LET todoIndex == FindIndex(data, id)
     IN IF todoIndex = -1
          THEN Returned("deleteTodo_return", id)
          ELSE LET todo == data[todoIndex + 1]
               IN /\ nOps < MaxOps
                  /\ transitions' = transitions + 1
                  /\ optimistic' = Append(optimistic,
                                          OptAction("delete", NoTodo, todo, -1))
                  /\ Dispatched("deleteTodo", Req("delete", id, <<>>, FALSE,
                                                  NoTodo, todo, todoIndex))
                  /\ UNCHANGED <<auxVars, variant, server, nextUuid, apiTodos, now,
                                 todos, isAdding, isUpdating, data, nRefetch,
                                 stale, console, log>>

\* deleteTodo after the await: the catch dispatches DELETE_ERROR and ends,
\* then the async action is over
Todos_deleteTodoSettle(r) ==
  /\ variant = "optimistic" /\ ~RevertDue
  /\ r \in reqs /\ r.kind = "delete" /\ r.phase = "replied"
  /\ optimistic' = IF Ok(r.status) THEN optimistic
                   ELSE Append(optimistic,
                               OptAction("delete_error", NoTodo, r.todo, r.index))
  /\ transitions' = transitions - 1
  /\ Settled(IF Ok(r.status) THEN "deleteTodo_ok" ELSE "deleteTodo_fail", r)
  /\ UNCHANGED <<auxVars, variant, server, nextUuid, apiTodos, now, todos, isAdding,
                 isUpdating, data, nOps, nRefetch, console>>

\* the render in which React reverts the optimistic state to the passthrough
Revert ==
  /\ RevertDue
  /\ optimistic' = <<>>
  /\ UNCHANGED <<auxVars, variant, server, nextUuid, apiTodos, now, todos, isAdding,
                 isUpdating, data, transitions, reqs, nOps, nRefetch, stale,
                 console, log, quiet, last>>

\* ---- list query ------------------------------------------------------------
\* getTodos settles: the list query stores the backend's list (after an
\* invalidation, or on mount / window focus)
Refetch ==
  /\ ~RevertDue
  /\ stale \/ nRefetch < MaxRefetch
  /\ data' = server
  /\ stale' = FALSE
  /\ nRefetch' = IF stale THEN nRefetch ELSE nRefetch + 1
  /\ quiet' = 0
  /\ last' = Evt("refetch", [NoReq EXCEPT !.before = visible], FALSE)
  /\ UNCHANGED <<auxVars, variant, server, nextUuid, apiTodos, now, todos, isAdding,
                 isUpdating, optimistic, transitions, reqs, nOps, console,
                 log>>

\* ---- specification ---------------------------------------------------------
InitialTodos(tag) ==
  [i \in 1..InitTodos |-> [id |-> <<tag, i>>, text |-> <<"x">>, completed |-> FALSE]]

Init ==
  /\ variant \in {"container", "optimistic"}
  /\ server = InitialTodos("uuid")
  /\ nextUuid = InitTodos + 1
  /\ apiTodos = InitialTodos("route")
  /\ now = 0
  /\ todos = IF variant = "container" THEN server ELSE <<>>
  /\ isAdding = FALSE
  /\ isUpdating = NoId
  /\ data = server
  /\ optimistic = <<>>
  /\ transitions = 0
  /\ reqs = {}
  /\ nOps = 0
  /\ nRefetch = 0
  /\ stale = FALSE
  /\ console = {}
  /\ log = <<>>
  /\ quiet = 0
  /\ last = Evt("init", NoReq, FALSE)
  /\ ServerIdle /\ ApiIdle /\ FoldIdle /\ QueryClientIdle

Next ==
  \/ \E input \in Inputs, t \in Clock : TodosContainer_addTodo(input, t)
  \/ \E id \in Clickable : TodosContainer_toggleTodo(id)
  \/ \E id \in Clickable : TodosContainer_deleteTodo(id)
  \/ \E r \in reqs : TodosContainer_addTodoSettle(r)
  \/ \E r \in reqs : TodosContainer_toggleTodoSettle(r)
  \/ \E r \in reqs : TodosContainer_deleteTodoSettle(r)
  \/ \E input \in Inputs, t \in Clock : Todos_addTodo(input, t)
  \/ \E id \in Clickable : Todos_toggleTodo(id)
  \/ \E id \in Clickable : Todos_deleteTodo(id)
  \/ \E r \in reqs : Todos_addTodoSettle(r)
  \/ \E r \in reqs : Todos_toggleTodoSettle(r)
  \/ \E r \in reqs : Todos_deleteTodoSettle(r)
  \/ Revert
  \/ \E r \in reqs : ServerCreate(r)
  \/ \E r \in reqs : ServerDelete(r)
  \/ \E r \in reqs : ServerPatch(r)
  \/ \E r \in reqs : RoutePut(r)
  \/ \E r \in reqs : NetworkError(r)
  \/ Refetch

Spec == Init /\ [][Next]_vars


\* ---- properties ------------------------------------------------------------
Settling == reqs = {} /\ ~RevertDue

AnyFail ==
  \/ \E r \in reqs : r.phase = "replied" /\ ~Ok(r.status)
  \/ \E i \in 1..Len(log) : ~log[i].ok

RecordsOf(s) == { s[i] : i \in 1..Len(s) }

UniqueIds(s) == \A i, j \in 1..Len(s) : s[i].id = s[j].id => i = j

\* C1: Add round-trip.  An Add dispatched alone shows the temporary record
\* (temporary id, the text, completed = false) at the end of the visible
\* collection until the create request settles; on success the canonical
\* record stands at that position, exactly once, and no record carries the
\* temporary id; on failure the visible collection is what it was before.
C1_AddRoundTrip ==
  /\ (last.evt = "addTodo" /\ last.solo) =>
        /\ visible = Append(last.before, last.temp)
        /\ IsTemp(last.temp.id)
        /\ last.temp.text # <<>>
        /\ last.temp.completed = FALSE
  /\ (last.evt = "addTodo_ok" /\ last.solo) =>
        /\ visible = Append(last.before, last.result)
        /\ Count(visible, last.temp.id) = 0
        /\ Count(visible, last.result.id) = 1
  /\ (last.evt = "addTodo_fail" /\ last.solo) => visible = last.before

\* C2: Delete rollback restores position.  A Delete dispatched alone removes
\* exactly the record at its index; when its request fails the visible
\* collection is again the sequence it was before the Delete.
C2_DeleteRollback ==
  /\ (last.evt = "deleteTodo" /\ last.solo) =>
        visible = RemoveAt(last.before, last.index)
  /\ (last.evt = "deleteTodo_fail" /\ last.solo) =>
        /\ visible = last.before
        /\ Len(visible) = Len(RemoveAt(last.before, last.index)) + 1
        /\ visible[last.index + 1] = last.todo

\* C3: Convergence.  Once every request has settled and none has failed, the
\* visible collection holds the records the server holds.
C3_Convergence ==
  (Settling /\ nOps > 0 /\ ~AnyFail) =>
     /\ IdsOf(visible) = IdsOf(server)
     /\ RecordsOf(visible) = RecordsOf(server)

\* C4: Id uniqueness of the visible collection.  No two visible records have
\* the same id, and no todo is visible both as its temporary record and as
\* its canonical record.
C4_VisibleIdsUnique ==
  /\ UniqueIds(visible)
  /\ \A r \in reqs :
       (r.kind = "create" /\ r.phase = "replied" /\ Ok(r.status)) =>
          ~(r.temp.id \in IdsOf(visible) /\ r.result.id \in IdsOf(visible))


DeletePending(id) == \E r \in reqs : r.kind = "delete" /\ r.id = id

\* C5: A transient record is always superseded.  Once the create request of
\* an Add has settled, no visible record carries that Add's temporary id; and
\* when the create succeeded and the canonical record is still on the server
\* with no Delete of it in flight, the canonical record is visible.
C5_TransientSuperseded ==
  \A i \in 1..Len(log) :
    log[i].kind = "create" =>
      /\ log[i].temp.id \notin IdsOf(visible)
      /\ (/\ log[i].ok
          /\ log[i].result.id \in IdsOf(server)
          /\ ~DeletePending(log[i].result.id)
          /\ ~RevertDue)
           => log[i].result.id \in IdsOf(visible)

\* C6: Concurrent independent operations do not interfere.  When an Add and
\* a Delete of an existing record were in flight together and both succeeded,
\* in either order, the visible collection holds the canonical new record
\* exactly once, not the deleted record, and every other record unchanged
\* in its original order.
C6_AddDeleteIndependent ==
  (/\ Settling /\ nOps = 2 /\ Len(log) = 2
   /\ log[1].ok /\ log[2].ok
   /\ {log[1].kind, log[2].kind} = {"create", "delete"}
   /\ ~(log[1].alone /\ log[2].alone))
  => LET a == IF log[1].kind = "create" THEN log[1] ELSE log[2]
         d == IF log[1].kind = "delete" THEN log[1] ELSE log[2]
     IN /\ Count(visible, a.result.id) = 1
        /\ a.result \in RecordsOf(visible)
        /\ d.id \notin IdsOf(visible)
        /\ SelectSeq(visible, LAMBDA t : t.id # a.result.id)
             = SelectSeq(InitialTodos("uuid"), LAMBDA t : t.id # d.id)

\* C7: Fresh temporary ids.  The temporary id of a newly added record is not
\* the id of any record already visible, and two Adds in flight at the same
\* time carry distinct temporary ids.
C7_FreshTempIds ==
  /\ last.evt = "addTodo" => last.temp.id \notin IdsOf(last.before)
  /\ \A r1, r2 \in reqs :
       (r1.kind = "create" /\ r2.kind = "create" /\ r1.op # r2.op)
          => r1.temp.id # r2.temp.id

ShowsCompleted(id, v) ==
  /\ Count(visible, id) = 1
  /\ Find(visible, id).completed = v

\* C8: Update idempotence under redundant confirmation.  From the dispatch
\* of a toggle of id to completed = v, while its request is in flight and
\* after the success response carrying completed = v, the visible collection
\* shows id exactly once, with completed = v.
C8_ToggleNoFlicker ==
  /\ (last.evt = "toggleTodo" /\ last.solo) =>
        ShowsCompleted(last.id, last.completed)
  /\ (last.evt = "toggleTodo_ok" /\ last.solo
        /\ last.result.completed = last.completed) =>
        ShowsCompleted(last.id, last.completed)

\* ids an action can name that no visible record has
AbsentIds ==
  ({ <<"uuid", n>> : n \in 1..nextUuid } \cup { <<"temp", t>> : t \in 0..MaxClock })
    \ IdsOf(visible)

\* C9: An operation on a vanished id is a safe no-op.  A toggle called for an
\* id whose Delete is still in flight and whose record is gone leaves the
\* visible collection as it was, the record still absent; and an UPDATE,
\* DELETE or ADD_COMPLETED (and the matching setTodos updaters) aimed at an
\* id no visible record has returns the collection unchanged.
C9_VanishedIdNoOp ==
  /\ (/\ last.evt \in {"toggleTodo", "toggleTodo_return"}
      /\ DeletePending(last.id)
      /\ last.id \notin IdsOf(last.before))
       => /\ visible = last.before
          /\ last.id \notin IdsOf(visible)
  /\ \A id \in AbsentIds :
       LET t == [id |-> id, text |-> <<"x">>, completed |-> TRUE]
           c == [id |-> <<"uuid", nextUuid + 1>>, text |-> <<"x">>, completed |-> FALSE]
       IN /\ Reducer(visible, OptAction("update", NoTodo, t, -1)) = visible
          /\ Reducer(visible, OptAction("delete", NoTodo, t, -1)) = visible
          /\ Reducer(visible, OptAction("add_completed", t, c, -1)) = visible
          /\ FlipCompleted(visible, id) = visible
          /\ ReplaceById(visible, id, t) = visible
          /\ RestoreCompleted(visible, id, t) = visible
          /\ ReplaceTemp(visible, t, c) = visible
          /\ FilterOut(visible, t) = visible

\* a toggle was called for an id whose record a pending Delete has removed
C9_Witness ==
  /\ last.evt \in {"toggleTodo", "toggleTodo_return"}
  /\ DeletePending(last.id)
  /\ last.id \notin IdsOf(last.before)
  /\ AbsentIds # {}

\* C10: Failures are reported, never swallowed.  Every operation whose
\* request failed has been reported once its handler has finished.
C10_FailuresReported ==
  \A i \in 1..Len(log) : ~log[i].ok => log[i].op \in console

\* a stands before b in s
Before(s, a, b) ==
  \E i, j \in 1..Len(s) : i < j /\ s[i].id = a /\ s[j].id = b

\* the ids of the records the list starts with, shown in this order
InitialIds == { <<"uuid", i>> : i \in 1..InitTodos }

\* C13: Ordering stability under interleaving.  Two records that are both
\* visible never change their relative order: the records the list started
\* with stand in their original order whenever they are visible, and when a
\* failed Delete of r is rolled back, r is visible again and stands on the
\* same side of every other record as it did when the Delete was dispatched.
C13_OrderStable ==
  /\ \A a, b \in IdsOf(visible) \cap InitialIds :
       a[2] < b[2] => ~Before(visible, b, a)
  /\ last.evt = "deleteTodo_fail" =>
       /\ last.id \in IdsOf(visible)
       /\ \A x \in (IdsOf(visible) \cap IdsOf(last.before)) \ {last.id} :
            Before(visible, last.id, x) <=> Before(last.before, last.id, x)

\* =========================================================================
\* The client functions of api/todos under the query library (ApiSpec)
\* =========================================================================
\* One client operation at a time: a hook or the page calls a client
\* function, the function calls fetch once, the server (or the network)
\* answers, the function resolves or throws, and the query library decides
\* whether to call the function again.

MaxCalls == 3

\* makeQueryClient sets only queries.staleTime: a query observed in the
\* browser keeps the library's default of three retries, a mutation and a
\* query run on the server (isServer) have none
QueryRetry == 3

\* who calls the client function
Callers == {"useQuery", "prefetchQuery", "useMutation"}

Retries(by) == IF by = "useQuery" THEN QueryRetry ELSE 0

\* the operations the application dispatches.  deleteTodo exists twice:
\* api/todos/index.ts returns response.json(), the other file returns nothing
ApiCalls ==
  { [fn |-> "getTodos", file |-> "api", by |-> "useQuery"],
    [fn |-> "getTodos", file |-> "api", by |-> "prefetchQuery"],
    [fn |-> "createTodo", file |-> "api", by |-> "useMutation"],
    [fn |-> "patchTodo", file |-> "api", by |-> "useMutation"],
    [fn |-> "deleteTodo", file |-> "api", by |-> "useMutation"],
    [fn |-> "deleteTodo", file |-> "api/index", by |-> "useMutation"] }

\* what the backend answers to each request: status and whether the
\* response carries a JSON body (204 carries none); status 0: fetch rejects
Responses(fn) ==
  { [status |-> 0, body |-> "empty"], [status |-> 500, body |-> "json"] } \cup
  CASE fn = "getTodos" -> { [status |-> 200, body |-> "json"] }
    [] fn = "createTodo" -> { [status |-> 201, body |-> "json"],
                              [status |-> 400, body |-> "json"] }
    [] fn = "patchTodo" -> { [status |-> 200, body |-> "json"],
                             [status |-> 404, body |-> "json"] }
    [] fn = "deleteTodo" -> { [status |-> 204, body |-> "empty"],
                              [status |-> 404, body |-> "json"] }
    [] OTHER -> {}

AllResponses == UNION { Responses(c.fn) : c \in ApiCalls }

\* await response.json(): parsing an empty body throws a SyntaxError
ResponseJson(resp) == IF resp.body = "json" THEN "resolved" ELSE "rejected"

\* getTodos: throw on !response.ok, else return await response.json()
Api_getTodos(resp) ==
  IF resp.status = 0 \/ ~Ok(resp.status) THEN "rejected" ELSE ResponseJson(resp)

\* createTodo: throw on !response.ok, else return await response.json()
Api_createTodo(resp) ==
  IF resp.status = 0 \/ ~Ok(resp.status) THEN "rejected" ELSE ResponseJson(resp)

\* patchTodo: throw on !response.ok, else return await response.json()
Api_patchTodo(resp) ==
  IF resp.status = 0 \/ ~Ok(resp.status) THEN "rejected" ELSE ResponseJson(resp)

\* deleteTodo (Promise<void>): throw on !response.ok, else return
Api_deleteTodo(resp) ==
  IF resp.status = 0 \/ ~Ok(resp.status) THEN "rejected" ELSE "resolved"

\* deleteTodo of api/todos/index.ts (Promise<Todo>): throw on !response.ok,
\* else return await response.json()
ApiIndex_deleteTodo(resp) ==
  IF resp.status = 0 \/ ~Ok(resp.status) THEN "rejected" ELSE ResponseJson(resp)

ClientResult(c, resp) ==
  CASE c.fn = "getTodos" -> Api_getTodos(resp)
    [] c.fn = "createTodo" -> Api_createTodo(resp)
    [] c.fn = "patchTodo" -> Api_patchTodo(resp)
    [] c.fn = "deleteTodo" /\ c.file = "api" -> Api_deleteTodo(resp)
    [] c.fn = "deleteTodo" /\ c.file = "api/index" -> ApiIndex_deleteTodo(resp)

\* a hook or the page dispatches an operation: the function calls fetch
Api_call(c) ==
  /\ inflight = NoCall /\ apiCalls < MaxCalls
  /\ inflight' = [fn |-> c.fn, file |-> c.file, by |-> c.by, phase |-> "sent",
                  failureCount |-> 0, status |-> 0, body |-> "empty"]
  /\ apiCalls' = apiCalls + 1
  /\ apiSent' = apiSent + 1
  /\ UNCHANGED <<queryClientVars, clientVars, serverVars, foldVars, outcome>>

\* the response arrives (or fetch rejects)
Api_respond(resp) ==
  /\ inflight.phase = "sent"
  /\ resp \in Responses(inflight.fn)
  /\ inflight' = [inflight EXCEPT !.phase = "replied", !.status = resp.status,
                                  !.body = resp.body]
  /\ UNCHANGED <<queryClientVars, clientVars, serverVars, foldVars, apiCalls, apiSent, outcome>>

\* the function threw and the library has retries left: it calls the
\* function again, which calls fetch again
Api_retry ==
  /\ inflight.phase = "replied"
  /\ ClientResult(inflight, inflight) = "rejected"
  /\ inflight.failureCount < Retries(inflight.by)
  /\ inflight' = [inflight EXCEPT !.phase = "sent",
                                  !.failureCount = inflight.failureCount + 1]
  /\ apiSent' = apiSent + 1
  /\ UNCHANGED <<queryClientVars, clientVars, serverVars, foldVars, apiCalls, outcome>>

\* the operation ends for its caller: data or error
Api_settle ==
  /\ inflight.phase = "replied"
  /\ LET result == ClientResult(inflight, inflight)
     IN /\ result = "rejected" => inflight.failureCount >= Retries(inflight.by)
        /\ outcome' = [fn |-> inflight.fn, file |-> inflight.file,
                       by |-> inflight.by, status |-> inflight.status,
                       body |-> inflight.body, result |-> result]
  /\ inflight' = NoCall
  /\ UNCHANGED <<queryClientVars, clientVars, serverVars, foldVars, apiCalls, apiSent>>

ClientIdle ==
  /\ variant = "none" /\ server = <<>> /\ nextUuid = 0 /\ apiTodos = <<>>
  /\ now = 0 /\ todos = <<>> /\ isAdding = FALSE /\ isUpdating = NoId
  /\ data = <<>> /\ optimistic = <<>> /\ transitions = 0 /\ reqs = {}
  /\ nOps = 0 /\ nRefetch = 0 /\ stale = FALSE /\ console = {} /\ log = <<>>
  /\ quiet = 0 /\ last = Evt("init", NoReq, FALSE)

ApiInit ==
  /\ ClientIdle /\ ServerIdle /\ FoldIdle /\ QueryClientIdle
  /\ apiCalls = 0 /\ apiSent = 0 /\ inflight = NoCall /\ outcome = NoOutcome

ApiNext ==
  \/ \E c \in ApiCalls : Api_call(c)
  \/ \E resp \in AllResponses : Api_respond(resp)
  \/ Api_retry
  \/ Api_settle

ApiSpec == ApiInit /\ [][ApiNext]_vars

\* C11 -- Single attempt: every dispatched operation (add, toggle, delete,
\* list fetch) issues exactly one network request and a failed request is
\* never sent again: the requests sent equal the operations dispatched.
C11_SingleAttempt == apiSent = apiCalls

\* C19 -- Remote access outcome: a client function fails exactly when the
\* response has a non-success status (or there is none) and succeeds when
\* the status is a success status, delete with its empty 204 included.
C19_RemoteOutcome ==
  outcome # NoOutcome =>
    (outcome.result = "rejected" <=> (outcome.status = 0 \/ ~Ok(outcome.status)))

\* =========================================================================
\* The reducer over JavaScript arrays (FoldSpec)
\* =========================================================================
\* The reducer receives a reference to the current array.  The heap holds
\* the arrays by reference, so that an update in place of the array passed
\* in is a different behaviour from the allocation of a new array.

MaxFoldLen == 2
MaxRuns == 2

\* a spread, map or filter allocates a new array and leaves its source alone
AllocArray(h, contents) ==
  [heap |-> Append(h, contents), ref |-> Len(h) + 1]

\* ADD written with state.push(todo); return state
Heap_ReduceAdd_Push(h, ref, action) ==
  [heap |-> [h EXCEPT ![ref] = Append(@, action.todo)], ref |-> ref]

\* case TODO_ACTIONS.ADD: return [...state, todo]
Heap_ReduceAdd(h, ref, action) == AllocArray(h, ReduceAdd(h[ref], action))

\* the reducer: each case returns a new array, default returns state itself
Heap_Reducer(h, ref, action) ==
  CASE action.type = "add" -> Heap_ReduceAdd(h, ref, action)
    [] action.type = "add_completed" ->
         AllocArray(h, ReduceAddCompleted(h[ref], action))
    [] action.type = "update" -> AllocArray(h, ReduceUpdate(h[ref], action))
    [] action.type = "delete" -> AllocArray(h, ReduceDelete(h[ref], action))
    [] action.type = "delete_error" ->
         AllocArray(h, ReduceDeleteError(h[ref], action))
    [] OTHER -> [heap |-> h, ref |-> ref]

\* the queued actions applied in order, starting from the array at ref
RECURSIVE Heap_Fold(_, _, _)
Heap_Fold(h, ref, actions) ==
  IF actions = <<>> THEN [heap |-> h, ref |-> ref]
  ELSE LET step == Heap_Reducer(h, ref, Head(actions))
       IN Heap_Fold(step.heap, step.ref, Tail(actions))

\* the records and the actions the fold is tried on
FoldTodo(tag, n, completed) ==
  [id |-> <<tag, n>>, text |-> <<"x">>, completed |-> completed]

FoldTodos ==
  { FoldTodo("uuid", 1, FALSE), FoldTodo("uuid", 2, FALSE),
    FoldTodo("uuid", 3, TRUE), FoldTodo("temp", 0, FALSE) }

FoldBaselines ==
  { <<>> } \cup { <<t>> : t \in FoldTodos }
    \cup { <<p[1], p[2]>> :
             p \in { q \in FoldTodos \X FoldTodos : q[1] # q[2] } }

FoldActionSet ==
  { OptAction("add", NoTodo, FoldTodo("temp", 0, FALSE), -1),
    OptAction("add_completed", FoldTodo("temp", 0, FALSE),
              FoldTodo("uuid", 2, FALSE), -1),
    OptAction("update", NoTodo, FoldTodo("uuid", 1, TRUE), -1),
    OptAction("delete", NoTodo, FoldTodo("uuid", 1, FALSE), -1),
    OptAction("delete_error", NoTodo, FoldTodo("uuid", 1, FALSE), 0),
    OptAction("delete_error", NoTodo, FoldTodo("uuid", 1, FALSE), 1) }

FoldActionLists ==
  UNION { [1..n -> FoldActionSet] : n \in 0..MaxFoldLen }

\* one render: the reducer is run over the queue from the baseline array
Fold_run ==
  /\ Len(foldRuns) < MaxRuns
  /\ LET r == Heap_Fold(heap, foldBase, foldActions)
     IN /\ heap' = r.heap
        /\ foldRuns' = Append(foldRuns, [before |-> heap[foldBase],
                                         out |-> r.heap[r.ref]])
  /\ UNCHANGED <<queryClientVars, clientVars, serverVars, apiVars, foldBase, foldActions>>

FoldInit ==
  /\ ClientIdle /\ ServerIdle /\ ApiIdle /\ QueryClientIdle
  /\ \E b \in FoldBaselines : heap = <<b>>
  /\ foldBase = 1
  /\ foldActions \in FoldActionLists
  /\ foldRuns = <<>>

FoldNext == Fold_run

FoldSpec == FoldInit /\ [][FoldNext]_vars

\* C12 -- Fold purity: folding a fixed list of actions over a baseline
\* twice gives identical collections, each equal to the fold of the
\* original baseline, and the baseline array is the same after the folds
\* as before them.
C12_FoldPurity ==
  \A i \in 1..Len(foldRuns) :
    /\ foldRuns[i].out = foldRuns[1].out
    /\ foldRuns[i].before = foldRuns[1].before
    /\ heap[foldBase] = foldRuns[1].before

\* the fold ran twice over a list with an ADD in it and changed the view
C12_Witness ==
  /\ Len(foldRuns) = 2
  /\ \E i \in 1..Len(foldActions) : foldActions[i].type = "add"
  /\ foldRuns[2].out # foldRuns[1].before

\* =========================================================================
\* The backends on their own (ServerSpec)
\* =========================================================================
\* Four implementations of the todo endpoints are in the repository:
\*   backend = "db"      routes/todos.ts over todoService (table todos)
\*   backend = "memory"  the todo routes over an in-memory array (randomUUID)
\*   backend = "legacy"  the older in-memory routes (id from todos.length + 1)
\*   backend = "route"   the Next.js route handlers of /api/todos
\* A stored record is [id, text, completed, createdAt]; text is a JSON value,
\* because the Next.js route stores whatever the request carries.  Rows of
\* the table are kept in created_at order, the order getTodos returns.

MaxSrvOps == 2
MaxSrvClock == 1

\* the older routes take three requests to give an id twice
MaxLegacyOps == 3

\* ---- JSON values of a request body --------------------------------------
Undefined == [type |-> "undefined", chars |-> <<>>, bool |-> FALSE]
Str(chars) == [type |-> "string", chars |-> chars, bool |-> FALSE]
Num == [type |-> "number", chars |-> <<>>, bool |-> FALSE]
Bool(b) == [type |-> "boolean", chars |-> <<>>, bool |-> b]

\* a string of n characters
Long(n) == [i \in 1..n |-> "x"]

\* the texts and bodies a request may carry
SrvTexts ==
  { Undefined, Num, Str(<<>>), Str(<<" ">>), Str(<<"y">>),
    Str(Long(MaxTextLen)), Str(Long(MaxTextLen + 1)) }

SrvBodies ==
  { [text |-> t, completed |-> c] : t \in SrvTexts, c \in {Undefined, Bool(TRUE)} }

NoBody == [text |-> Undefined, completed |-> Undefined]

\* ---- errors -------------------------------------------------------------
\* a message is a sequence of tokens: words, and the id put in by `${id}`
W(s) == <<"w", s>>

NoError == [class |-> "none", name |-> "none", message |-> <<>>]

\* new Error(message)
NewError(message) == [class |-> "Error", name |-> "Error", message |-> message]

\* class NotFoundError extends Error, name 'NotFoundError'
NewNotFoundError(message) ==
  [class |-> "NotFoundError", name |-> "NotFoundError", message |-> message]

\* e instanceof cls: cls is the class of e or one it extends
InstanceOf(e, cls) ==
  \/ e.class = cls /\ cls # "none"
  \/ e.class = "NotFoundError" /\ cls = "Error"

\* `Todo with id ${id} not found`
NotFoundMessage(id) ==
  <<W("Todo"), W("with"), W("id"), id, W("not"), W("found")>>

\* message.includes(pattern)
Includes(message, pattern) ==
  \E i \in 1..(Len(message) - Len(pattern) + 1) :
    SubSeq(message, i, i + Len(pattern) - 1) = pattern

\* what pg.query can reject with when the database or the driver fails
QueryFaults ==
  { NewError(<<W("Connection"), W("terminated")>>),
    NewError(<<W("relation"), W("not"), W("found")>>) }

\* ---- validation (zod schemas of the shared api package) -----------------
\* z.string().min(1).max(500)
ValidTodoText(t) ==
  t.type = "string" /\ Len(t.chars) >= 1 /\ Len(t.chars) <= MaxTextLen

\* CreateTodoSchema: text required, completed: z.boolean().default(false)
ValidCreate(body) ==
  /\ ValidTodoText(body.text)
  /\ body.completed.type \in {"undefined", "boolean"}

\* completed: false whatever the request carries, as the older routes do
CreateCompleted_Ignored(body) == FALSE

CreateCompleted(body) ==
  IF body.completed.type = "undefined" THEN FALSE ELSE body.completed.bool

\* TodoSchema.omit({ id, createdAt, updatedAt }).partial()
ValidPatch(body) ==
  /\ body.text.type = "undefined" \/ ValidTodoText(body.text)
  /\ body.completed.type \in {"undefined", "boolean"}

\* TodoInsert of the older routes: text: z.string().min(1)
ValidInsert(body) ==
  /\ body.text.type = "string" /\ Len(body.text.chars) >= 1
  /\ body.completed.type \in {"undefined", "boolean"}

\* ---- stores -------------------------------------------------------------
NoRecord ==
  [id |-> NoId, text |-> Undefined, completed |-> FALSE, createdAt |-> 0]

SrvInitial(tag) ==
  [i \in 1..InitTodos |->
     [id |-> <<tag, i>>, text |-> Str(<<"x">>), completed |-> FALSE,
      createdAt |-> 0]]

\* the rows the table starts with: inserted one after another before the
\* first request, at clock readings before the first one a request sees
DbInitial ==
  [i \in 1..InitTodos |->
     [id |-> <<"uuid", i>>, text |-> Str(<<"x">>), completed |-> FALSE,
      createdAt |-> i - InitTodos - 1]]

\* ids a request can name: the stored ones, a uuid and a number not stored,
\* and for the Next.js route the missing `id` parameter
SrvIds == IdsOf(store) \cup { <<"uuid", 0>>, <<"num", 0>>, NoId }

NoReply ==
  [op |-> "none", id |-> NoId, body |-> NoBody, status |-> 0,
   shape |-> "none", result |-> NoRecord, rows |-> <<>>, thrown |-> NoError,
   fault |-> NoError, before |-> <<>>]

SrvReply(op, id, body, status, shape, result, thrown, fault) ==
  [op |-> op, id |-> id, body |-> body, status |-> status, shape |-> shape,
   result |-> result, rows |-> <<>>, thrown |-> thrown, fault |-> fault,
   before |-> store]

\* a handler has answered: the store it leaves and the reply it sent
Handled(r, newStore) ==
  /\ srvOps < (IF backend = "legacy" THEN MaxLegacyOps ELSE MaxSrvOps)
  /\ reply' = r
  /\ store' = newStore
  /\ srvOps' = srvOps + 1
  /\ UNCHANGED <<queryClientVars, clientVars, apiVars, foldVars, backend>>

\* the clock a backend reads (Date.now() in the Next.js route, the database
\* clock behind created_at): it never runs backwards and need not have
\* advanced since the last reading
SrvClock == srvNow..MaxSrvClock

\* ---- todoService over the table todos -----------------------------------
\* rows of s whose id is not id (DELETE FROM todos WHERE id = ${id})
RECURSIVE DeleteWhere(_, _)
DeleteWhere(s, id) ==
  IF s = <<>> THEN <<>>
  ELSE IF Head(s).id = id THEN DeleteWhere(Tail(s), id)
  ELSE <<Head(s)>> \o DeleteWhere(Tail(s), id)

\* deleteTodo raising a plain Error when no row was deleted
Svc_deleteTodo_PlainError(s, id, fault) ==
  IF fault # NoError THEN [store |-> s, thrown |-> fault]
  ELSE IF Count(s, id) = 0
    THEN [store |-> s, thrown |-> NewError(NotFoundMessage(id))]
  ELSE [store |-> DeleteWhere(s, id), thrown |-> NoError]

\* deleteTodo: the query, then NotFoundError when result.rowCount === 0
Svc_deleteTodo(s, id, fault) ==
  IF fault # NoError THEN [store |-> s, thrown |-> fault]
  ELSE IF Count(s, id) = 0
    THEN [store |-> s, thrown |-> NewNotFoundError(NotFoundMessage(id))]
  ELSE [store |-> DeleteWhere(s, id), thrown |-> NoError]

\* createTodo: INSERT INTO todos (text, completed) ... RETURNING the row;
\* created_at is not among the inserted columns: the table fills it in with
\* t, the reading of the database clock
Svc_createTodo(s, text, completed, t, fault) ==
  IF fault # NoError THEN [store |-> s, row |-> NoRecord, thrown |-> fault]
  ELSE LET row == [id |-> <<"uuid", srvNextId>>, text |-> text,
                   completed |-> completed, createdAt |-> t]
       IN [store |-> Append(s, row), row |-> row, thrown |-> NoError]

\* the fields of data that are not undefined
PatchFields(body) ==
  { k \in {"text", "completed"} : body[k].type # "undefined" }

\* a row with the supplied fields set
SetFields(row, body) ==
  [row EXCEPT
     !.text = IF body.text.type = "undefined" THEN @ ELSE body.text,
     !.completed = IF body.completed.type = "undefined" THEN @
                   ELSE body.completed.bool]

\* updateTodo: throws when no field is given, else UPDATE ... WHERE id
\* RETURNING the row, null when no row matched
Svc_updateTodo(s, id, body, fault) ==
  IF PatchFields(body) = {}
    THEN [store |-> s, row |-> NoRecord,
          thrown |-> NewError(<<W("No"), W("fields"), W("to"), W("update")>>)]
  ELSE IF fault # NoError THEN [store |-> s, row |-> NoRecord, thrown |-> fault]
  ELSE IF Count(s, id) = 0
    THEN [store |-> s, row |-> NoRecord, thrown |-> NoError]
  ELSE LET index == FindIndex(s, id)
           row == SetFields(s[index + 1], body)
       IN [store |-> [s EXCEPT ![index + 1] = row], row |-> row,
           thrown |-> NoError]

\* the orders in which the rows of s at the places idx can come out of
\* ORDER BY created_at ASC: a row with the least created_at first; rows with
\* equal created_at come in an order the query does not fix
RECURSIVE OrderByCreatedAt(_, _)
OrderByCreatedAt(s, idx) ==
  IF idx = {} THEN { <<>> }
  ELSE UNION { { <<s[i]>> \o q : q \in OrderByCreatedAt(s, idx \ {i}) } :
               i \in { k \in idx :
                         \A m \in idx : s[k].createdAt <= s[m].createdAt } }

\* getTodos: SELECT ... FROM todos ORDER BY created_at ASC; the row lists
\* the query can return
Svc_getTodos(s, fault) ==
  IF fault # NoError THEN [rows |-> {}, thrown |-> fault]
  ELSE [rows |-> OrderByCreatedAt(s, 1..Len(s)), thrown |-> NoError]

\* a list request has been answered: the store is as it was
Listed(r) ==
  /\ reply' = r
  /\ UNCHANGED <<queryClientVars, clientVars, apiVars, foldVars, backend, store, srvNextId,
                 srvNow, srvOps>>

\* ---- routes/todos.ts (backend = "db") -----------------------------------
\* GET /todos
Db_get(fault) ==
  /\ backend = "db"
  /\ LET res == Svc_getTodos(store, fault)
     IN IF res.thrown # NoError
          THEN Listed(SrvReply("list", NoId, NoBody, 500, "error", NoRecord,
                               res.thrown, fault))
          ELSE \E rows \in res.rows :
                 Listed([SrvReply("list", NoId, NoBody, 200, "todos",
                                  NoRecord, NoError, fault)
                           EXCEPT !.rows = rows])

\* POST /todos
Db_post(body, t, fault) ==
  /\ backend = "db"
  /\ t \in SrvClock
  /\ IF ~ValidCreate(body)
       THEN /\ Handled(SrvReply("create", NoId, body, 400, "error", NoRecord,
                                NoError, NoError), store)
            /\ UNCHANGED <<srvNextId, srvNow>>
       ELSE LET res == Svc_createTodo(store, body.text, CreateCompleted(body),
                                      t, fault)
            IN IF res.thrown # NoError
                 THEN /\ Handled(SrvReply("create", NoId, body, 500, "error",
                                          NoRecord, res.thrown, fault), store)
                      /\ UNCHANGED <<srvNextId, srvNow>>
                 ELSE /\ Handled(SrvReply("create", NoId, body, 201, "todo",
                                          res.row, NoError, fault), res.store)
                      /\ srvNextId' = srvNextId + 1
                      /\ srvNow' = t

\* PATCH /todos/:id
Db_patch(id, body, fault) ==
  /\ backend = "db"
  /\ IF ~IsUuid(id) \/ ~ValidPatch(body)
       THEN Handled(SrvReply("update", id, body, 400, "error", NoRecord,
                             NoError, NoError), store)
       ELSE LET res == Svc_updateTodo(store, id, body, fault)
            IN IF res.thrown # NoError
                 THEN Handled(SrvReply("update", id, body, 500, "error",
                                       NoRecord, res.thrown, fault), store)
                 ELSE IF res.row = NoRecord
                 THEN Handled(SrvReply("update", id, body, 404, "message",
                                       NoRecord, NoError, fault), store)
                 ELSE Handled(SrvReply("update", id, body, 200, "todo",
                                       res.row, NoError, fault), res.store)
  /\ UNCHANGED <<srvNextId, srvNow>>

\* DELETE /todos/:id: 204, or 404 for an Error whose message includes
\* 'not found', any other error is thrown on
Db_delete(id, fault) ==
  /\ backend = "db"
  /\ IF ~IsUuid(id)
       THEN Handled(SrvReply("delete", id, NoBody, 400, "error", NoRecord,
                             NoError, NoError), store)
       ELSE LET res == Svc_deleteTodo(store, id, fault)
            IN IF res.thrown = NoError
                 THEN Handled(SrvReply("delete", id, NoBody, 204, "empty",
                                       NoRecord, NoError, fault), res.store)
                 ELSE IF /\ InstanceOf(res.thrown, "Error")
                         /\ Includes(res.thrown.message, <<W("not"), W("found")>>)
                 THEN Handled(SrvReply("delete", id, NoBody, 404, "message",
                                       NoRecord, res.thrown, fault), store)
                 ELSE Handled(SrvReply("delete", id, NoBody, 500, "error",
                                       NoRecord, res.thrown, fault), store)
  /\ UNCHANGED <<srvNextId, srvNow>>

\* ---- the in-memory todo routes (backend = "memory") ---------------------
\* GET /todos: () => todos
Mem_get ==
  /\ backend = "memory"
  /\ Listed([SrvReply("list", NoId, NoBody, 200, "todos", NoRecord, NoError,
                      NoError)
               EXCEPT !.rows = store])

\* POST /todos
Mem_post(body) ==
  /\ backend = "memory"
  /\ IF ~ValidCreate(body)
       THEN /\ Handled(SrvReply("create", NoId, body, 400, "error", NoRecord,
                                NoError, NoError), store)
            /\ UNCHANGED srvNextId
       ELSE LET newTodo == [id |-> <<"uuid", srvNextId>>, text |-> body.text,
                            completed |-> CreateCompleted(body),
                            createdAt |-> srvNow]
            IN /\ Handled(SrvReply("create", NoId, body, 201, "todo", newTodo,
                                   NoError, NoError), Append(store, newTodo))
               /\ srvNextId' = srvNextId + 1
  /\ UNCHANGED srvNow

\* PATCH /todos/:id
Mem_patch(id, body) ==
  /\ backend = "memory"
  /\ IF ~IsUuid(id) \/ ~ValidPatch(body)
       THEN Handled(SrvReply("update", id, body, 400, "error", NoRecord,
                             NoError, NoError), store)
       ELSE LET index == FindIndex(store, id)
            IN IF index = -1
                 THEN Handled(SrvReply("update", id, body, 404, "message",
                                       NoRecord, NoError, NoError), store)
                 ELSE LET updatedTodo == SetFields(store[index + 1], body)
                      IN Handled(SrvReply("update", id, body, 200, "todo",
                                          updatedTodo, NoError, NoError),
                                 [store EXCEPT ![index + 1] = updatedTodo])
  /\ UNCHANGED <<srvNextId, srvNow>>

\* DELETE /todos/:id
Mem_delete(id) ==
  /\ backend = "memory"
  /\ IF ~IsUuid(id)
       THEN Handled(SrvReply("delete", id, NoBody, 400, "error", NoRecord,
                             NoError, NoError), store)
       ELSE LET index == FindIndex(store, id)
            IN IF index = -1
                 THEN Handled(SrvReply("delete", id, NoBody, 404, "message",
                                       NoRecord, NoError, NoError), store)
                 ELSE Handled(SrvReply("delete", id, NoBody, 204, "empty",
                                       NoRecord, NoError, NoError),
                              RemoveAt(store, index))
  /\ UNCHANGED <<srvNextId, srvNow>>

\* ---- the older in-memory routes (backend = "legacy") --------------------
\* POST /todos: id: (todos.length + 1).toString(), completed: false
Legacy_post(body) ==
  /\ backend = "legacy"
  /\ IF ~ValidInsert(body)
       THEN Handled(SrvReply("create", NoId, body, 400, "error", NoRecord,
                             NoError, NoError), store)
       ELSE LET newTodo == [id |-> <<"num", Len(store) + 1>>,
                            text |-> body.text, completed |-> FALSE,
                            createdAt |-> srvNow]
            IN Handled(SrvReply("create", NoId, body, 201, "todo", newTodo,
                                NoError, NoError), Append(store, newTodo))
  /\ UNCHANGED <<srvNextId, srvNow>>

\* DELETE /todos/:id
Legacy_delete(id) ==
  /\ backend = "legacy"
  /\ LET index == FindIndex(store, id)
     IN IF index = -1
          THEN Handled(SrvReply("delete", id, NoBody, 404, "message", NoRecord,
                                NoError, NoError), store)
          ELSE Handled(SrvReply("delete", id, NoBody, 204, "empty", NoRecord,
                                NoError, NoError), RemoveAt(store, index))
  /\ UNCHANGED <<srvNextId, srvNow>>

\* ---- the Next.js route handlers of /api/todos (backend = "route") -------
\* the check of POST written without trim(): !text || typeof text !== 'string'
RouteRejectsText_NoTrim(text) ==
  \/ text.type # "string"
  \/ text.chars = <<>>

\* !text || typeof text !== 'string' || text.trim().length === 0
RouteRejectsText(text) ==
  \/ text.type = "undefined"
  \/ text.type = "string" /\ text.chars = <<>>
  \/ text.type # "string"
  \/ Trim(text.chars) = <<>>

\* POST /api/todos: id: Date.now().toString(), text: text.trim()
\* ids made from Date.now() are far above the ids '1'..'5' of the seed
\* records: they carry their own tag
Route_post(body, t) ==
  /\ backend = "route"
  /\ t \in SrvClock
  /\ srvNow' = t
  /\ IF RouteRejectsText(body.text)
       THEN Handled(SrvReply("create", NoId, body, 400, "error", NoRecord,
                             NoError, NoError), store)
       ELSE LET newTodo == [id |-> <<"ts", t>>,
                            text |-> Str(Trim(body.text.chars)),
                            completed |-> FALSE, createdAt |-> t]
            IN Handled(SrvReply("create", NoId, body, 201, "wrapped", newTodo,
                                NoError, NoError), Append(store, newTodo))
  /\ UNCHANGED srvNextId

\* PUT /api/todos with body { id, text, completed }
Route_put(id, body) ==
  /\ backend = "route"
  /\ LET todoIndex == FindIndex(store, id)
     IN IF todoIndex = -1
          THEN Handled(SrvReply("update", id, body, 404, "error", NoRecord,
                                NoError, NoError), store)
          ELSE LET todo == SetFields(store[todoIndex + 1], body)
               IN Handled(SrvReply("update", id, body, 200, "wrapped", todo,
                                   NoError, NoError),
                          [store EXCEPT ![todoIndex + 1] = todo])
  /\ UNCHANGED <<srvNextId, srvNow>>

\* DELETE /api/todos?id=
Route_delete(id) ==
  /\ backend = "route"
  /\ IF id = NoId
       THEN Handled(SrvReply("delete", id, NoBody, 400, "error", NoRecord,
                             NoError, NoError), store)
       ELSE LET todoIndex == FindIndex(store, id)
            IN IF todoIndex = -1
                 THEN Handled(SrvReply("delete", id, NoBody, 404, "error",
                                       NoRecord, NoError, NoError), store)
                 ELSE Handled(SrvReply("delete", id, NoBody, 200, "wrapped",
                                       store[todoIndex + 1], NoError, NoError),
                              RemoveAt(store, todoIndex))
  /\ UNCHANGED <<srvNextId, srvNow>>

\* ---- the specification of the backends ----------------------------------
Backends == {"db", "memory", "legacy", "route"}

\* ids of a path parameter: the parameter is never missing
PathIds == SrvIds \ {NoId}

Faults == {NoError} \cup QueryFaults

ServerInit ==
  /\ ClientIdle /\ ApiIdle /\ FoldIdle /\ QueryClientIdle
  /\ backend \in Backends
  /\ store = IF backend = "db" THEN DbInitial
             ELSE SrvInitial(IF backend = "route" THEN "num" ELSE "uuid")
  /\ srvNextId = InitTodos + 1
  /\ srvNow = 0
  /\ srvOps = 0
  /\ reply = NoReply

ServerNext ==
  \/ \E fault \in Faults : Db_get(fault)
  \/ Mem_get
  \/ \E body \in SrvBodies, t \in SrvClock, fault \in Faults :
       Db_post(body, t, fault)
  \/ \E id \in PathIds, body \in SrvBodies, fault \in Faults :
       Db_patch(id, body, fault)
  \/ \E id \in PathIds, fault \in Faults : Db_delete(id, fault)
  \/ \E body \in SrvBodies : Mem_post(body)
  \/ \E id \in PathIds, body \in SrvBodies : Mem_patch(id, body)
  \/ \E id \in PathIds : Mem_delete(id)
  \/ \E body \in SrvBodies : Legacy_post(body)
  \/ \E id \in PathIds : Legacy_delete(id)
  \/ \E body \in SrvBodies, t \in SrvClock : Route_post(body, t)
  \/ \E id \in SrvIds, body \in SrvBodies : Route_put(id, body)
  \/ \E id \in SrvIds : Route_delete(id)

ServerSpec == ServerInit /\ [][ServerNext]_vars

\* ---- properties of the backends ----------------------------------------
\* the last request was op on one of the given backends
Answered(op, backends) == reply.op = op /\ backend \in backends

\* s with the record of id left out, every other record in place
Without(s, id) == RemoveAt(s, FindIndex(s, id))

\* C14 -- Server delete contract: DELETE /todos/:id for an id in the store
\* removes exactly that record, leaves the others unchanged and replies 204;
\* for an id not in the store it replies 404 with {message} and leaves the
\* store unchanged; a failure that is not a not-found condition (the query
\* itself failed) is not answered with 404.
C14_DeleteContract ==
  (Answered("delete", {"db"}) /\ IsUuid(reply.id)) =>
     /\ (reply.fault = NoError /\ reply.id \in IdsOf(reply.before)) =>
          /\ reply.status = 204
          /\ store = Without(reply.before, reply.id)
     /\ (reply.fault = NoError /\ reply.id \notin IdsOf(reply.before)) =>
          /\ reply.status = 404 /\ reply.shape = "message"
          /\ store = reply.before
     /\ reply.fault # NoError =>
          /\ reply.status # 404
          /\ store = reply.before

\* the record of id after the update asked for by body
Patched(old, body) ==
  [id |-> old.id,
   text |-> IF body.text.type = "undefined" THEN old.text ELSE body.text,
   completed |-> IF body.completed.type = "undefined" THEN old.completed
                 ELSE body.completed.bool,
   createdAt |-> old.createdAt]

\* C15 -- Server update contract: PATCH /todos/:id with a valid partial
\* body for an id in the store changes only the supplied fields of that
\* record, keeps its id, createdAt and position and every other record, and
\* replies 200 with the updated record; for an id not in the store it
\* replies 404 with {message} and leaves the store unchanged.
C15_UpdateContract ==
  (/\ Answered("update", {"db", "memory"})
   /\ IsUuid(reply.id) /\ ValidPatch(reply.body) /\ reply.fault = NoError) =>
     IF reply.id \in IdsOf(reply.before)
       THEN /\ reply.status = 200
            /\ Len(store) = Len(reply.before)
            /\ \A i \in 1..Len(reply.before) :
                 IF reply.before[i].id = reply.id
                   THEN /\ store[i] = Patched(reply.before[i], reply.body)
                        /\ reply.result = store[i]
                   ELSE store[i] = reply.before[i]
       ELSE /\ reply.status = 404 /\ reply.shape = "message"
            /\ store = reply.before

\* C16 -- Server create contract: POST /todos with a valid text adds exactly
\* one record with that text, completed = false when omitted and the
\* supplied value otherwise, leaves the existing records unchanged and
\* replies 201 with the new record; an empty text or one longer than 500
\* characters is rejected with 400 and the store is unchanged.
C16_CreateContract ==
  (Answered("create", {"db", "memory"}) /\ reply.fault = NoError) =>
     IF /\ reply.body.text.type = "string"
        /\ Len(reply.body.text.chars) \in 1..500
       THEN /\ reply.status = 201
            /\ Len(store) = Len(reply.before) + 1
            /\ SubSeq(store, 1, Len(reply.before)) = reply.before
            /\ store[Len(store)] = reply.result
            /\ reply.result.text = reply.body.text
            /\ reply.result.completed =
                 (reply.body.completed.type = "boolean"
                    /\ reply.body.completed.bool)
       ELSE /\ reply.status = 400
            /\ store = reply.before

\* a record was created with completed supplied as true
C16_Witness ==
  /\ Answered("create", {"db", "memory"})
  /\ reply.status = 201
  /\ reply.body.completed = Bool(TRUE)
  /\ Len(reply.body.text.chars) = 500

\* C17 -- Server id uniqueness: after any sequence of create, update and
\* delete requests the records of the store have pairwise distinct ids.
C17_ServerIdsUnique ==
  backend \in {"legacy", "route", "memory"} => UniqueIds(store)

\* C18 -- Text bound on stored records: every record of the store has a
\* text that is a string of 1 to 500 characters.
C18_StoredTextBound ==
  backend \in {"db", "memory", "route"} =>
    \A i \in 1..Len(store) :
      /\ store[i].text.type = "string"
      /\ Len(store[i].text.chars) >= 1
      /\ Len(store[i].text.chars) <= 500

\* C20 -- NotFoundError is a distinguishable error value: it is an Error
\* and a NotFoundError, has name 'NotFoundError' and exactly its message; a
\* generic Error is never a NotFoundError; the todo service raises it, with
\* a message naming the id, exactly when a delete matches no record.
C20_NotFoundError ==
  /\ reply.thrown.class = "NotFoundError" =>
       /\ InstanceOf(reply.thrown, "Error")
       /\ InstanceOf(reply.thrown, "NotFoundError")
       /\ reply.thrown.name = "NotFoundError"
       /\ reply.thrown.message = NotFoundMessage(reply.id)
       /\ \E i \in 1..Len(reply.thrown.message) :
            reply.thrown.message[i] = reply.id
  /\ reply.thrown.class = "Error" => ~InstanceOf(reply.thrown, "NotFoundError")
  /\ (Answered("delete", {"db"}) /\ IsUuid(reply.id)) =>
       (InstanceOf(reply.thrown, "NotFoundError")
          <=> (reply.fault = NoError /\ reply.id \notin IdsOf(reply.before)))

\* a delete that matched no row raised the NotFoundError
C20_Witness ==
  /\ Answered("delete", {"db"})
  /\ reply.thrown.class = "NotFoundError"
  /\ reply.status = 404

\* =========================================================================
\* Further properties of the client components (Spec)
\* =========================================================================
\* C21: Projection rebuilt from the server.  When a fetch of the todo list
\* completes while no add, toggle or delete is pending, the visible
\* collection is the fetched collection, record for record and in the same
\* order.
C21_ProjectionRebuilt ==
  (last.evt = "refetch" /\ reqs = {}) => visible = data

\* TodosPage: queryClient.prefetchQuery({ queryKey: QUERY_KEYS.TODOS, ... })
PrefetchKey == TODOS_KEY

\* a create, update or delete mutation has just succeeded (the toggle of the
\* useOptimistic component calls fetch itself and is no mutation)
MutationSucceeded ==
  \/ last.evt \in {"addTodo_ok", "deleteTodo_ok"}
  \/ last.evt = "toggleTodo_ok" /\ variant = "container"

\* C22: Invalidation reaches the list query.  When a create, update or delete
\* mutation has succeeded, the invalidated key matches the key the list was
\* fetched under, which is also the key the server page prefetched it under,
\* and the cached list is marked stale.
C22_InvalidationReaches ==
  MutationSucceeded =>
    /\ PartialMatchKey(ListQueryKey, InvalidateKey)
    /\ PartialMatchKey(PrefetchKey, InvalidateKey)
    /\ ListQueryKey = PrefetchKey
    /\ stale

\* no request naming id is left in the set rs
NoneOn(rs, id) == \A r \in rs : r.id # id

\* C23: Toggle rollback leaves no trace.  The step that dispatches a toggle
\* of id shows id with the flipped completed value; the step that settles a
\* failed update of id changes no record other than id, and when it leaves
\* no request on id in flight the visible completed value of id is the one
\* the server holds and the text of id is the one it had at the dispatch.
C23_ToggleRollback ==
  [][ /\ (nOps' # nOps /\ last'.evt = "toggleTodo") =>
           Find(visible', last'.id).completed = last'.completed
      /\ (log' # log /\ last'.evt = "toggleTodo_fail") =>
           /\ Len(visible') = Len(visible)
           /\ \A i \in 1..Len(visible) :
                visible[i].id # last'.id => visible'[i] = visible[i]
           /\ (/\ NoneOn(reqs', last'.id)
               /\ last'.id \in IdsOf(visible') \cap IdsOf(server'))
                => /\ Find(visible', last'.id).completed
                        = Find(server', last'.id).completed
                   /\ Find(visible', last'.id).text = last'.todo.text
    ]_vars

\* =========================================================================
\* Frame of the reducer (FoldSpec)
\* =========================================================================
\* the id an action aims at
TargetOf(action) ==
  IF action.type = "add_completed" THEN action.temp.id ELSE action.todo.id

\* the records of s with an id other than id, in their order
OthersOf(s, id) == SelectSeq(s, LAMBDA t : t.id # id)

\* what one reducer step may change: s is the collection handed in, out the
\* collection returned for action a
FrameOf(s, a, out) ==
  CASE a.type \in {"add_completed", "update"} ->
         /\ Len(out) = Len(s)
         /\ \A i \in 1..Len(s) :
              out[i] = IF s[i].id = TargetOf(a) THEN a.todo ELSE s[i]
    [] a.type = "delete" ->
         /\ OthersOf(out, TargetOf(a)) = OthersOf(s, TargetOf(a))
         /\ Len(out) = Len(s) - Count(s, TargetOf(a))
    [] a.type = "add" ->
         /\ Len(out) = Len(s) + 1
         /\ out[Len(out)] = a.todo
         /\ SubSeq(out, 1, Len(s)) = s
    [] OTHER -> TRUE

\* C24: Frame of the reducer actions.  In every fold that has run, each
\* ADD_COMPLETED, UPDATE and DELETE step changed only the records with the
\* id the action aims at: ADD_COMPLETED and UPDATE kept the length and put
\* the replacement where the target stood, DELETE removed exactly the records
\* with the target id and kept the others in their order, and ADD put one
\* record at the end.
C24_ReducerFrame ==
  \A k \in 1..Len(foldActions) :
    Len(heap) > k => FrameOf(heap[k], foldActions[k], heap[k + 1])

\* a fold has run in which an ADD_COMPLETED replaced a record that was there
\* and a DELETE removed one
C24_Witness ==
  /\ Len(foldRuns) >= 1
  /\ \E k \in 1..Len(foldActions) :
       /\ foldActions[k].type = "add_completed"
       /\ TargetOf(foldActions[k]) \in IdsOf(heap[k])
       /\ heap[k + 1] # heap[k]
  /\ \E k \in 1..Len(foldActions) :
       /\ foldActions[k].type = "delete"
       /\ Len(heap[k + 1]) < Len(heap[k])

\* =========================================================================
\* Further properties of the backends (ServerSpec)
\* =========================================================================
\* the lists a list request can return for the records s
ListsOf(s) ==
  IF backend = "db" THEN Svc_getTodos(s, NoError).rows ELSE { s }

\* C25: Server list order.  A list reply holds the stored records with every
\* record after all the records created before it (ids are handed out in
\* creation order), and a successful update leaves every record at the place
\* it had in the list before the update.
C25_ServerListOrder ==
  /\ (Answered("list", {"db", "memory"}) /\ reply.status = 200) =>
       /\ Len(reply.rows) = Len(store)
       /\ RecordsOf(reply.rows) = RecordsOf(store)
       /\ \A i, j \in 1..Len(reply.rows) :
            i < j => reply.rows[i].id[2] < reply.rows[j].id[2]
  /\ (Answered("update", {"db", "memory"}) /\ reply.status = 200) =>
       \A l1 \in ListsOf(reply.before), l2 \in ListsOf(store) :
         \A i \in 1..Len(l1) : l1[i].id = l2[i].id

\* =========================================================================
\* The add form (Spec)
\* =========================================================================
\* s is empty or holds nothing but whitespace
IsBlank(s) == \A i \in 1..Len(s) : s[i] = " "

\* out is s without its leading and trailing whitespace
IsStripOf(out, s) ==
  /\ out # <<>> /\ out[1] # " " /\ out[Len(out)] # " "
  /\ \E i \in 0..(Len(s) - Len(out)) :
       /\ SubSeq(s, i + 1, i + Len(out)) = out
       /\ IsBlank(SubSeq(s, 1, i))
       /\ IsBlank(SubSeq(s, i + Len(out) + 1, Len(s)))

\* C26: Blank input is rejected before any network call.  A call of addTodo
\* with empty or whitespace-only text sends no request, queues no optimistic
\* record and leaves the visible collection and the busy flags as they were;
\* a call with any other text shows a temporary record and sends a create
\* request, both with the text stripped of leading and trailing whitespace.
C26_BlankRejected ==
  [][ (last' # last /\ last'.evt \in {"addTodo", "addTodo_return"}) =>
        IF IsBlank(last'.input)
          THEN /\ last'.evt = "addTodo_return"
               /\ reqs' = reqs /\ nOps' = nOps
               /\ optimistic' = optimistic /\ todos' = todos
               /\ visible' = visible
               /\ isAdding' = isAdding /\ isUpdating' = isUpdating
          ELSE /\ last'.evt = "addTodo"
               /\ IsStripOf(last'.temp.text, last'.input)
               /\ last'.temp \in RecordsOf(visible')
               /\ \E r \in reqs' \ reqs :
                    r.kind = "create" /\ r.text = last'.temp.text
    ]_vars

\* a whitespace-only text was submitted while a request was in flight
C26_Witness ==
  /\ last.evt = "addTodo_return"
  /\ last.input # <<>> /\ IsBlank(last.input)
  /\ reqs # {}

\* =========================================================================
\* The figures derived from the rendered collection (FoldSpec)
\* =========================================================================
\* Math.floor of the quotient num / den
MathRound_Floor(num, den) == num \div den

\* Math.round of the quotient num / den, den > 0: the nearest integer, a
\* half rounded up.  The quotient is exact here; in double arithmetic
\* (completedCount / totalCount) * 100 is the same number for every
\* collection of fewer than 40 records.
MathRound(num, den) == (2 * num + den) \div (2 * den)

\* optimisticTodos.filter(todo => todo.completed).length
completedCount(s) == Len(SelectSeq(s, LAMBDA t : t.completed))

\* optimisticTodos.length
totalCount(s) == Len(s)

\* totalCount > 0 ? Math.round((completedCount / totalCount) * 100) : 0
Percentage(s) ==
  IF totalCount(s) > 0 THEN MathRound(100 * completedCount(s), totalCount(s))
  ELSE 0

\* the figures shown for the collection s are the ones the records give
DerivedCounts(s) ==
  /\ totalCount(s) = Cardinality(DOMAIN s)
  /\ completedCount(s) = Cardinality({ i \in DOMAIN s : s[i].completed })
  /\ 0 <= completedCount(s) /\ completedCount(s) <= totalCount(s)
  /\ Percentage(s) \in 0..100
  /\ IF totalCount(s) = 0 THEN Percentage(s) = 0
     ELSE LET twice == 2 * (totalCount(s) * Percentage(s)
                              - 100 * completedCount(s))
          IN -totalCount(s) <= twice /\ twice <= totalCount(s)

MaxGets == 4

\* makeQueryClient: new QueryClient({ defaultOptions: ... })
makeQueryClient(made) == [client |-> made + 1, made |-> made + 1]

\* getQueryClient without the isServer branch: one client for everybody
getQueryClient_Shared(srv, slot, made) ==
  IF slot = 0
    THEN LET m == makeQueryClient(made)
         IN [client |-> m.client, slot |-> m.client, made |-> m.made]
    ELSE [client |-> slot, slot |-> slot, made |-> made]

\* getQueryClient: what it returns, and the slot and the objects after it
getQueryClient(srv, slot, made) ==
  IF srv
    THEN LET m == makeQueryClient(made)
         IN [client |-> m.client, slot |-> slot, made |-> m.made]
  ELSE IF slot = 0
    THEN LET m == makeQueryClient(made)
         IN [client |-> m.client, slot |-> m.client, made |-> m.made]
  ELSE [client |-> slot, slot |-> slot, made |-> made]

\* who calls getQueryClient: client components are rendered on the server
\* and in the browser, the page (a server component) on the server only
QueryClientCallers ==
  {"Providers", "useCreateTodo", "useUpdateTodo", "useDeleteTodo"}
    \cup (IF isServer THEN {"TodosPage"} ELSE {})

\* one call of getQueryClient by the component or hook `by`
QueryClient_get(by) ==
  /\ Len(gotClients) < MaxGets
  /\ by \in QueryClientCallers
  /\ LET r == getQueryClient(isServer, browserQueryClient, madeClients)
     IN /\ browserQueryClient' = r.slot
        /\ madeClients' = r.made
        /\ gotClients' = Append(gotClients, [by |-> by, client |-> r.client])
  /\ UNCHANGED <<clientVars, serverVars, apiVars, foldVars, isServer>>

QueryClientInit ==
  /\ ClientIdle /\ ServerIdle /\ ApiIdle /\ FoldIdle
  /\ isServer \in BOOLEAN
  /\ browserQueryClient = 0
  /\ madeClients = 0
  /\ gotClients = <<>>

QueryClientNext ==
  \E by \in {"Providers", "useCreateTodo", "useUpdateTodo", "useDeleteTodo",
             "TodosPage"} : QueryClient_get(by)

QueryClientSpec == QueryClientInit /\ [][QueryClientNext]_vars

\* C28: Query client lifecycle.  In the browser every call of getQueryClient
\* has returned the one client held in the shared slot and no second client
\* has been constructed; on the server every call has returned a client no
\* earlier call returned, one client has been constructed per call, and the
\* shared slot is still empty.
C28_QueryClientLifecycle ==
  /\ ~isServer =>
       /\ madeClients <= 1
       /\ gotClients # <<>> => browserQueryClient # 0
       /\ \A i \in DOMAIN gotClients :
            gotClients[i].client = browserQueryClient
  /\ isServer =>
       /\ browserQueryClient = 0
       /\ madeClients = Len(gotClients)
       /\ \A i, j \in DOMAIN gotClients :
            i < j => gotClients[i].client # gotClients[j].client

\* in the browser the provider and a mutation hook have both asked for the
\* client
C28_Witness ==
  /\ ~isServer
  /\ \E i, j \in DOMAIN gotClients :
       /\ i < j
       /\ gotClients[i].by = "Providers"
       /\ gotClients[j].by = "useDeleteTodo"

\* =========================================================================
\* The busy flag of the toggle (Spec)
\* =========================================================================
\* the update requests that have not settled
UpdatesInFlight == { r \in reqs : r.kind \in {"patch", "put"} }

\* C29: Per-record update exclusivity.  While an update request for a record
\* is in flight isUpdating is the id of that record, no second update request
\* for the same record is in flight, and when no update request is in flight
\* isUpdating is null.
C29_UpdateExclusive ==
  /\ \A r \in UpdatesInFlight : isUpdating = r.id
  /\ \A r1, r2 \in UpdatesInFlight : r1.id = r2.id => r1 = r2
  /\ UpdatesInFlight = {} => isUpdating = NoId

\* =========================================================================
\* The Next.js route handlers: what a rejected request leaves behind
\* (ServerSpec)
\* =========================================================================
\* a text that is missing, not a string, or blank
MissingOrBlank(text) ==
  \/ text.type # "string"
  \/ \A i \in 1..Len(text.chars) : text.chars[i] = " "

\* C30: Rejected requests leave the store of the Next.js route unchanged.  A
\* POST whose text is missing, not a string or blank replies 400; a PUT for
\* an id not in the store replies 404; a DELETE without id replies 400 and
\* for an unknown id 404; in each case the todos array is as before.  An
\* accepted DELETE removes one record, the one with that id, and returns it;
\* an accepted PUT changes the supplied fields of the one matching record
\* and nothing else.
C30_RouteRejections ==
  backend = "route" =>
    /\ (reply.op = "create" /\ MissingOrBlank(reply.body.text)) =>
         reply.status = 400 /\ store = reply.before
    /\ (reply.op = "update" /\ reply.id \notin IdsOf(reply.before)) =>
         reply.status = 404 /\ store = reply.before
    /\ (reply.op = "delete" /\ reply.id = NoId) =>
         reply.status = 400 /\ store = reply.before
    /\ (reply.op = "delete" /\ reply.id # NoId
          /\ reply.id \notin IdsOf(reply.before)) =>
         reply.status = 404 /\ store = reply.before
    /\ (reply.op = "delete" /\ reply.id \in IdsOf(reply.before)) =>
         /\ reply.status = 200
         /\ \E k \in 1..Len(reply.before) :
              /\ reply.before[k].id = reply.id
              /\ reply.result = reply.before[k]
              /\ store = SubSeq(reply.before, 1, k - 1)
                           \o SubSeq(reply.before, k + 1, Len(reply.before))
    /\ (reply.op = "update" /\ reply.id \in IdsOf(reply.before)) =>
         /\ reply.status = 200
         /\ Len(store) = Len(reply.before)
         /\ \E k \in 1..Len(store) :
              /\ reply.before[k].id = reply.id
              /\ \A i \in 1..Len(store) : i # k => store[i] = reply.before[i]
              /\ store[k].id = reply.id
              /\ store[k].createdAt = reply.before[k].createdAt
              /\ store[k].text =
                   IF reply.body.text = Undefined THEN reply.before[k].text
                   ELSE reply.body.text
              /\ store[k].completed =
                   IF reply.body.completed = Undefined
                     THEN reply.before[k].completed
                   ELSE reply.body.completed.bool
              /\ reply.result = store[k]

\* after a POST was accepted, a PUT for an id not in the store was rejected
C30_Witness ==
  /\ backend = "route"
  /\ reply.op = "update" /\ reply.status = 404
  /\ Len(store) > InitTodos

====
